---------------------------- MODULE Spec2Model ----------------------------
(***************************************************************************)
(* Fraud / anomaly detection service: the event store with its ingestion   *)
(* path (app/main.py, app/models.py), the windowed feature computation     *)
(* (app/features.py), the model-artifact cache and the scoring call        *)
(* (app/scoring.py), the reason rules (app/reasons.py) and retraining      *)
(* (training/train.py, main.retrain).                                      *)
(*                                                                         *)
(* Conventions.  None is 0: row ids and artifact versions start at 1.      *)
(* Timestamps are whole seconds on a naive clock whose second 0 is a       *)
(* Monday 00:00.  Amounts are whole currency units.  Python floats are     *)
(* fixed-point integers: angles, trigonometric values, logarithms and      *)
(* anomaly scores carry FP units per 1, distances and speeds carry KM      *)
(* units per km (per km/h), risk scores PCT units per percent.             *)
(* The pass-through columns currency and channel are left out: no          *)
(* operation reads them.                                                   *)
(***************************************************************************)
EXTENDS Integers, Sequences, FiniteSets, TLC

VARIABLES
    events,      \* table events: set of Event rows
    features,    \* table features: set of FeatureRow rows
    scores,      \* table scores: set of ScoreRow rows
    model_runs,  \* table model_runs: the versions recorded by /retrain
    cached,      \* scoring._cached: model, scaler, threshold, feature_columns
    files,       \* artifacts/: model.joblib, scaler.joblib, threshold.json
    pc,          \* per request thread: position in its handler
    req,         \* per request thread: the request it serves
    loc,         \* per request thread: the handler's local variables
    rpc,         \* the /retrain thread: position in retrain / fit_and_save
    rloc,        \* the /retrain thread: locals (version being published, runs)
    served       \* requests received so far

vars == <<events, features, scores, model_runs, cached, files, pc, req, loc, rpc, rloc, served>>

dbvars == <<events, features, scores, model_runs>>
artvars == <<cached, files>>
tvars == <<pc, req, loc, served>>
rvars == <<rpc, rloc>>

-----------------------------------------------------------------------------
(* Bounds of the model *)

\* request threads of the concurrent specifications, each serving one request
NThreads == 2
\* requests served one after the other in a behaviour of the sequential specifications
MaxSeqRequests == 3
\* /retrain calls in a behaviour
MaxRetrains == 1
\* events ingested in a behaviour of SpecWin
MaxWinEvents == 3
\* events ingested in a behaviour of SpecNov
MaxNovEvents == 2
\* raw scores and thresholds of SpecScore range over -MaxScoreSteps .. MaxScoreSteps steps
MaxScoreSteps == 5
\* earlier events of the user in a history of SpecSpike: one more than the sample holds
MaxPriorEvents == 31
\* events ingested in a behaviour of SpecGeo
MaxGeoEvents == 3

-----------------------------------------------------------------------------
(* Program constants *)

WINDOW_5M == 300
WINDOW_1H == 3600
EARTH_R == 6371
SPEED_LIMIT == 900
VELOCITY_LIMIT == 3
SPEND_LIMIT == 800
SPIKE_MIN_PRIOR == 10
SPIKE_SAMPLE == 30
SPIKE_FACTOR == 4
MAX_REASONS == 3

SEV_NEW_DEVICE == 85
SEV_NEW_IP == 80
SEV_NEW_MERCHANT == 65
SEV_IMPOSSIBLE_TRAVEL == 95
SEV_HIGH_VELOCITY == 90
SEV_HIGH_SPEND == 70
SEV_AMOUNT_SPIKE == 75

\* fixed-point units per 1 of a Python float
FP == 10000
\* units per km of a distance, per km/h of a speed
KM == 10
\* pi in FP units
PiFP == 31416
\* the largest finite float, on the scale of the model: a difference of two floats
\* beyond it is an infinity
FLOAT_MAX == 60000

None == 0
\* a file that exists while its writer has not finished writing it
Partial == -1
\* a timestamp string isoparse cannot parse
BadTimestamp == -1

-----------------------------------------------------------------------------
(* math: radians, sin, cos, asin, sqrt, log on fixed-point numbers *)

Abs(x) == IF x < 0 THEN -x ELSE x

Min(a, b) == IF a <= b THEN a ELSE b

radians(deg) ==
    IF deg >= 0 THEN (deg * PiFP) \div 180 ELSE -(((-deg) * PiFP) \div 180)

\* sin on [0, pi]: the Taylor polynomial to x^7 in Horner form
SinPos(x) ==
    LET y  == IF x > PiFP \div 2 THEN PiFP - x ELSE x
        y2 == (y * y) \div FP
        t3 == FP - (y2 \div 42)
        t2 == FP - (((y2 * t3) \div FP) \div 20)
        t1 == FP - (((y2 * t2) \div FP) \div 6)
    IN  (y * t1) \div FP

\* sin on x >= 0: the argument reduced to one period
SinReduced(x) ==
    LET t == x % (2 * PiFP)
    IN  IF t <= PiFP THEN SinPos(t) ELSE -SinPos(t - PiFP)

sin(x) == IF x < 0 THEN -SinReduced(-x) ELSE SinReduced(x)

cos(x) == sin((PiFP \div 2) - Abs(x))

RECURSIVE SqrtSearch(_, _, _)
SqrtSearch(n, lo, hi) ==
    IF lo >= hi THEN lo
    ELSE LET mid == (lo + hi + 1) \div 2
         IN  IF mid * mid <= n THEN SqrtSearch(n, mid, hi)
             ELSE SqrtSearch(n, lo, mid - 1)

\* sqrt of a value in [0, 1]
sqrt(a) == SqrtSearch(a * FP, 0, FP)

RECURSIVE AsinSearch(_, _, _)
AsinSearch(s, lo, hi) ==
    IF lo >= hi THEN lo
    ELSE LET mid == (lo + hi + 1) \div 2
         IN  IF SinPos(mid) <= s THEN AsinSearch(s, mid, hi)
             ELSE AsinSearch(s, lo, mid - 1)

\* asin of a value in [0, 1]
asin(s) == AsinSearch(Min(s, FP), 0, PiFP \div 2)

RECURSIVE Pow2Below(_, _)
Pow2Below(n, p) == IF 2 * p > n THEN p ELSE Pow2Below(n, 2 * p)

RECURSIVE Log2Floor(_)
Log2Floor(n) == IF n < 2 THEN 0 ELSE 1 + Log2Floor(n \div 2)

\* natural logarithm of a whole number n >= 1:
\* k ln 2 + 2 atanh((m - 1) / (m + 1)) with n = m 2^k, 1 <= m < 2
log(n) ==
    LET p  == Pow2Below(n, 1)
        z  == ((n - p) * FP) \div (n + p)
        z2 == (z * z) \div FP
        z3 == (z * z2) \div FP
        z5 == (z3 * z2) \div FP
    IN  Log2Floor(n) * 6931 + 2 * (z + (z3 \div 3) + (z5 \div 5))

-----------------------------------------------------------------------------
(* app/features.py *)

\* haversine_km raises ValueError (math domain error): lat2 - lat1 or lon2 - lon1
\* overflows to an infinity, and sin of an infinity raises
haversine_raises(lat1, lon1, lat2, lon2) ==
    \/ lat2 - lat1 > FLOAT_MAX \/ lat1 - lat2 > FLOAT_MAX
    \/ lon2 - lon1 > FLOAT_MAX \/ lon1 - lon2 > FLOAT_MAX

\* x / 2: like every float operation, it commutes with the change of sign
Half(x) == IF x >= 0 THEN x \div 2 ELSE -((-x) \div 2)

\* haversine_km with the latitudes added where they are subtracted
haversine_km_SumLat(lat1, lon1, lat2, lon2) ==
    LET dlat == radians(lat2 + lat1)
        dlon == radians(lon2 - lon1)
        sl   == sin(Half(dlat))
        so   == sin(Half(dlon))
        cc   == (cos(radians(lat1)) * cos(radians(lat2))) \div FP
        a    == ((sl * sl) \div FP) + ((cc * ((so * so) \div FP)) \div FP)
        c    == 2 * asin(sqrt(Min(a, FP)))
    IN  (EARTH_R * c) \div (FP \div KM)

\* haversine_km with cos(radians(lat1)) taken twice
haversine_km_OneLat(lat1, lon1, lat2, lon2) ==
    LET dlat == radians(lat2 - lat1)
        dlon == radians(lon2 - lon1)
        sl   == sin(Half(dlat))
        so   == sin(Half(dlon))
        cc   == (cos(radians(lat1)) * cos(radians(lat1))) \div FP
        a    == ((sl * sl) \div FP) + ((cc * ((so * so) \div FP)) \div FP)
        c    == 2 * asin(sqrt(Min(a, FP)))
    IN  (EARTH_R * c) \div (FP \div KM)

\* great-circle distance in KM units
haversine_km(lat1, lon1, lat2, lon2) ==
    LET dlat == radians(lat2 - lat1)
        dlon == radians(lon2 - lon1)
        sl   == sin(Half(dlat))
        so   == sin(Half(dlon))
        cc   == (cos(radians(lat1)) * cos(radians(lat2))) \div FP
        a    == ((sl * sl) \div FP) + ((cc * ((so * so) \div FP)) \div FP)
        c    == 2 * asin(sqrt(Min(a, FP)))
    IN  (EARTH_R * c) \div (FP \div KM)

RECURSIVE SumAmounts(_)
SumAmounts(S) ==
    IF S = {} THEN 0
    ELSE LET e == CHOOSE x \in S : TRUE
         IN  e.amount + SumAmounts(S \ {e})

\* EventsInWindow with the upper end of the window closed: .filter(timestamp <= t)
EventsInWindow_Inclusive(db, user, start, t) ==
    {e \in db : e.user_id = user /\ e.timestamp >= start /\ e.timestamp <= t}

\* the rows of db.query(Event).filter(user_id == ...).filter(timestamp >= start).filter(timestamp < t)
EventsInWindow(db, user, start, t) ==
    {e \in db : e.user_id = user /\ e.timestamp >= start /\ e.timestamp < t}

\* PriorEvents with .filter(timestamp <= t): the row just inserted is its own prior
PriorEvents_Inclusive(db, user, t) ==
    {e \in db : e.user_id = user /\ e.timestamp <= t}

\* the rows .filter(user_id == ...).filter(timestamp < t)
PriorEvents(db, user, t) ==
    {e \in db : e.user_id = user /\ e.timestamp < t}

\* LastEventCandidates without .filter(user_id == incoming.user_id)
LastEventCandidates_AnyUser(db, user, t) ==
    LET prior == {e \in db : e.timestamp < t}
    IN  IF prior = {} THEN {None}
        ELSE {e.id : e \in {x \in prior : \A y \in prior : y.timestamp <= x.timestamp}}

\* the rows .order_by(timestamp.desc()).first() may return: the store picks
\* among rows that share the greatest timestamp; None when there is no row
LastEventCandidates(db, user, t) ==
    LET prior == PriorEvents(db, user, t)
    IN  IF prior = {} THEN {None}
        ELSE {e.id : e \in {x \in prior : \A y \in prior : y.timestamp <= x.timestamp}}

EventRow(db, id) == CHOOSE e \in db : e.id = id

SeenMerchant(db, inc) ==
    \E e \in PriorEvents(db, inc.user_id, inc.timestamp) : e.merchant_id = inc.merchant_id

SeenDevice(db, inc) ==
    \E e \in PriorEvents(db, inc.user_id, inc.timestamp) : e.device_id = inc.device_id

SeenIp(db, inc) ==
    \E e \in PriorEvents(db, inc.user_id, inc.timestamp) : e.ip = inc.ip

\* compute_features(db, incoming) raises: its call of haversine_km does
compute_features_raises(db, incoming, last) ==
    /\ last # None
    /\ haversine_raises(EventRow(db, last).lat, EventRow(db, last).lon,
                        incoming.lat, incoming.lon)

\* compute_features(db, incoming), with `last` the row its last_event query returned
compute_features(db, incoming, last) ==
    LET t         == incoming.timestamp
        recent_5m == EventsInWindow(db, incoming.user_id, t - WINDOW_5M, t)
        recent_1h == EventsInWindow(db, incoming.user_id, t - WINDOW_1H, t)
        le        == EventRow(db, last)
        dist      == IF last = None THEN 0
                     ELSE haversine_km(le.lat, le.lon, incoming.lat, incoming.lon)
        dt        == IF last = None THEN 0 ELSE incoming.timestamp - le.timestamp
    IN  [ log_amount            |-> IF incoming.amount > 0 THEN log(incoming.amount) ELSE 0,
          tx_count_5m           |-> Cardinality(recent_5m),
          tx_count_1h           |-> Cardinality(recent_1h),
          spend_1h              |-> SumAmounts(recent_1h),
          is_new_merchant       |-> IF SeenMerchant(db, incoming) THEN 0 ELSE 1,
          is_new_device         |-> IF SeenDevice(db, incoming) THEN 0 ELSE 1,
          is_new_ip             |-> IF SeenIp(db, incoming) THEN 0 ELSE 1,
          distance_from_last_km |-> dist,
          speed_kmph            |-> IF last # None /\ dt > 0 THEN (dist * 3600) \div dt ELSE 0,
          hour_of_day           |-> (t \div 3600) % 24,
          day_of_week           |-> (t \div 86400) % 7 ]

-----------------------------------------------------------------------------
(* app/reasons.py *)

Reason(kind, sev) == [reason |-> kind, severity |-> sev]

\* reasons.append(r) if cond
AppendIf(rs, cond, r) == IF cond THEN Append(rs, r) ELSE rs

RECURSIVE InsertAsc(_, _)
InsertAsc(s, v) ==
    IF s = <<>> THEN <<v>>
    ELSE IF v < Head(s) THEN <<v>> \o s
    ELSE <<Head(s)>> \o InsertAsc(Tail(s), v)

\* sorted(vals)
RECURSIVE SortedAsc(_)
SortedAsc(s) ==
    IF s = <<>> THEN <<>> ELSE InsertAsc(SortedAsc(Tail(s)), Head(s))

\* r goes before the first element of a lower severity: equal severities keep their order
RECURSIVE InsertBySeverity(_, _)
InsertBySeverity(s, r) ==
    IF s = <<>> THEN <<r>>
    ELSE IF Head(s).severity < r.severity THEN <<r>> \o s
    ELSE <<Head(s)>> \o InsertBySeverity(Tail(s), r)

\* sorted(reasons, key=severity, reverse=True): a stable sort
RECURSIVE SortedBySeverity(_)
SortedBySeverity(s) ==
    IF s = <<>> THEN <<>>
    ELSE InsertBySeverity(SortedBySeverity(SubSeq(s, 1, Len(s) - 1)), s[Len(s)])

\* .order_by(timestamp.desc()).limit(n): the amounts of the n most recent rows of S
RECURSIVE RecentAmounts(_, _)
RecentAmounts(S, n) ==
    IF S = {} \/ n = 0 THEN <<>>
    ELSE LET e == CHOOSE x \in S : \A y \in S : y.timestamp <= x.timestamp
         IN  <<e.amount>> \o RecentAmounts(S \ {e}, n - 1)

\* amount_spike without the test len(prior_amounts) >= 10
amount_spike_NoMinimum(db, ev) ==
    LET prior_amounts == RecentAmounts(PriorEvents(db, ev.user_id, ev.timestamp), SPIKE_SAMPLE)
        vals_sorted   == SortedAsc(prior_amounts)
        median        == vals_sorted[(Len(vals_sorted) \div 2) + 1]
    IN  /\ Len(prior_amounts) >= 1
        /\ median > 0
        /\ ev.amount >= SPIKE_FACTOR * median

\* amount_spike taking the lower of the two middle elements of an even sample:
\* vals_sorted[(len(vals_sorted) - 1) // 2]
amount_spike_LowerMiddle(db, ev) ==
    LET prior_amounts == RecentAmounts(PriorEvents(db, ev.user_id, ev.timestamp), SPIKE_SAMPLE)
        vals_sorted   == SortedAsc(prior_amounts)
        median        == vals_sorted[((Len(vals_sorted) - 1) \div 2) + 1]
    IN  /\ Len(prior_amounts) >= SPIKE_MIN_PRIOR
        /\ median > 0
        /\ ev.amount >= SPIKE_FACTOR * median

amount_spike(db, ev) ==
    LET prior_amounts == RecentAmounts(PriorEvents(db, ev.user_id, ev.timestamp), SPIKE_SAMPLE)
        vals_sorted   == SortedAsc(prior_amounts)
        median        == vals_sorted[(Len(vals_sorted) \div 2) + 1]
    IN  /\ Len(prior_amounts) >= SPIKE_MIN_PRIOR
        /\ median > 0
        /\ ev.amount >= SPIKE_FACTOR * median

\* FiringReasons with strict comparisons in the three limit rules
FiringReasons_StrictLimits(db, ev, fr) ==
    LET r1 == AppendIf(<<>>, fr.is_new_device = 1, Reason("new_device", SEV_NEW_DEVICE))
        r2 == AppendIf(r1, fr.is_new_ip = 1, Reason("new_ip", SEV_NEW_IP))
        r3 == AppendIf(r2, fr.is_new_merchant = 1, Reason("new_merchant", SEV_NEW_MERCHANT))
        r4 == AppendIf(r3, fr.speed_kmph > SPEED_LIMIT * KM,
                       Reason("impossible_travel", SEV_IMPOSSIBLE_TRAVEL))
        r5 == AppendIf(r4, fr.tx_count_5m > VELOCITY_LIMIT,
                       Reason("high_velocity_5m", SEV_HIGH_VELOCITY))
        r6 == AppendIf(r5, fr.spend_1h > SPEND_LIMIT, Reason("high_spend_1h", SEV_HIGH_SPEND))
    IN  AppendIf(r6, amount_spike(db, ev), Reason("amount_spike", SEV_AMOUNT_SPIKE))

FiringReasons(db, ev, fr) ==
    LET r1 == AppendIf(<<>>, fr.is_new_device = 1, Reason("new_device", SEV_NEW_DEVICE))
        r2 == AppendIf(r1, fr.is_new_ip = 1, Reason("new_ip", SEV_NEW_IP))
        r3 == AppendIf(r2, fr.is_new_merchant = 1, Reason("new_merchant", SEV_NEW_MERCHANT))
        r4 == AppendIf(r3, fr.speed_kmph >= SPEED_LIMIT * KM,
                       Reason("impossible_travel", SEV_IMPOSSIBLE_TRAVEL))
        r5 == AppendIf(r4, fr.tx_count_5m >= VELOCITY_LIMIT,
                       Reason("high_velocity_5m", SEV_HIGH_VELOCITY))
        r6 == AppendIf(r5, fr.spend_1h >= SPEND_LIMIT, Reason("high_spend_1h", SEV_HIGH_SPEND))
    IN  AppendIf(r6, amount_spike(db, ev), Reason("amount_spike", SEV_AMOUNT_SPIKE))

\* build_reasons truncating the reasons in rule order, without the sort by severity
build_reasons_NoSort(db, ev, fr) ==
    LET reasons == FiringReasons(db, ev, fr)
    IN  SubSeq(reasons, 1, Min(MAX_REASONS, Len(reasons)))

build_reasons(db, ev, fr) ==
    LET reasons_sorted == SortedBySeverity(FiringReasons(db, ev, fr))
    IN  SubSeq(reasons_sorted, 1, Min(MAX_REASONS, Len(reasons_sorted)))

-----------------------------------------------------------------------------
(* app/scoring.py: the arithmetic of score_feature_vector *)

\* units of a risk score per percent
PCT == 100

\* risk_score without the two clamps: 100.0 * anomaly_score / threshold as it comes
risk_score_NoClamp(anomaly_score, threshold) ==
    IF threshold <= 0 THEN 0 ELSE (100 * PCT * anomaly_score) \div threshold

risk_score(anomaly_score, threshold) ==
    IF threshold <= 0 THEN 0
    ELSE LET risk == (100 * PCT * anomaly_score) \div threshold
         IN  IF risk < 0 THEN 0 ELSE IF risk > 100 * PCT THEN 100 * PCT ELSE risk

\* flagged with a strict comparison: anomaly_score > threshold
flagged_Strict(anomaly_score, threshold) == anomaly_score > threshold

flagged(anomaly_score, threshold) == anomaly_score >= threshold

-----------------------------------------------------------------------------
(* Rows, requests and the locals of a handler *)

Threads == 1 .. NThreads

NoReq == [kind |-> "none"]

NoFeats ==
    [ log_amount |-> 0, tx_count_5m |-> 0, tx_count_1h |-> 0, spend_1h |-> 0,
      is_new_merchant |-> 0, is_new_device |-> 0, is_new_ip |-> 0,
      distance_from_last_km |-> 0, speed_kmph |-> 0, hour_of_day |-> 0, day_of_week |-> 0 ]

\* status: "" while the handler runs, "ok" for a 200 response, else the error raised;
\* epoch: the newest version whose /retrain had returned from reset_cache when the
\* handler made its first scoring call (history, read by no step)
InitLoc ==
    [ status |-> "", ev |-> None, fr |-> None, created |-> FALSE, feats |-> NoFeats,
      ret |-> "", tmp |-> None, epoch |-> None,
      cols |-> None, scaler |-> None, model |-> None, threshold |-> None,
      anomaly_score |-> 0, risk_score |-> 0, flagged |-> FALSE,
      reasons |-> <<>>, sr |-> None ]

\* Event(event_id=req.event_id, ...) with the primary key the insert assigns
NewEvent(id, r) ==
    [ id |-> id, event_id |-> r.event_id, user_id |-> r.user_id,
      merchant_id |-> r.merchant_id, amount |-> r.amount, timestamp |-> r.timestamp,
      lat |-> r.lat, lon |-> r.lon, device_id |-> r.device_id, ip |-> r.ip ]

\* FeatureRow(event_id_fk=ev.id, ...feats) with the primary key the insert assigns
NewFeatureRow(id, fk, f) ==
    [ id |-> id, event_id_fk |-> fk,
      log_amount |-> f.log_amount, tx_count_5m |-> f.tx_count_5m,
      tx_count_1h |-> f.tx_count_1h, spend_1h |-> f.spend_1h,
      is_new_merchant |-> f.is_new_merchant, is_new_device |-> f.is_new_device,
      is_new_ip |-> f.is_new_ip, distance_from_last_km |-> f.distance_from_last_km,
      speed_kmph |-> f.speed_kmph, hour_of_day |-> f.hour_of_day,
      day_of_week |-> f.day_of_week ]

\* ScoreRow(event_id_fk=ev.id, ...); created_at, a clock reading, is left out
NewScoreRow(id, fk, l) ==
    [ id |-> id, event_id_fk |-> fk, anomaly_score |-> l.anomaly_score,
      risk_score |-> l.risk_score, flagged |-> IF l.flagged THEN 1 ELSE 0,
      reasons_json |-> l.reasons ]

\* the primary key an autoincrement column assigns: rows are never deleted
NextId(table) == Cardinality(table) + 1

\* query(...).filter(key == v).first(): the id of the row found, None when there is none
FirstId(rows) ==
    IF rows = {} THEN None
    ELSE (CHOOSE x \in rows : \A y \in rows : x.id <= y.id).id

\* EventByEventId filtering on another column than event_id
EventByEventId_WrongColumn(db, eid) == FirstId({e \in db : e.merchant_id = eid})

EventByEventId(db, eid) == FirstId({e \in db : e.event_id = eid})

RowByFk(table, fk) == FirstId({x \in table : x.event_id_fk = fk})

FeatureOf(table, id) == CHOOSE f \in table : f.id = id

\* Event.event_id declared without unique=True
EventIdUnique_Missing(db, eid) == TRUE

\* models.py: Event.event_id is unique
EventIdUnique(db, eid) == \A e \in db : e.event_id # eid

\* models.py: FeatureRow.event_id_fk is unique
FeatureFkUnique(table, fk) == \A f \in table : f.event_id_fk # fk

\* models.py: ScoreRow.event_id_fk is unique
ScoreFkUnique(table, fk) == \A x \in table : x.event_id_fk # fk

\* isoparse(req.timestamp) succeeds
TimestampParses(ts) == ts # BadTimestamp

-----------------------------------------------------------------------------
(* Steps of a request thread.  A step is one statement that reads or writes *)
(* shared state (a query, a commit, an access to _cached or to a file)      *)
(* together with the local statements that follow it.                       *)

Goto(p, l) == pc' = [pc EXCEPT ![p] = l]

\* the handler ends: a response, or the exception that leaves it
Finish(p, l, st) ==
    /\ pc' = [pc EXCEPT ![p] = "done"]
    /\ loc' = [loc EXCEPT ![p] = [l EXCEPT !.status = st]]

\* a request arrives at thread p
Receive(p, r, max) ==
    /\ pc[p] \in {"idle", "done"}
    /\ served < max
    /\ pc' = [pc EXCEPT ![p] = "q_event"]
    /\ req' = [req EXCEPT ![p] = r]
    /\ loc' = [loc EXCEPT ![p] = InitLoc]
    /\ served' = served + 1
    /\ UNCHANGED <<dbvars, artvars, rvars>>

\* upsert_event_and_features: existing = db.query(Event)...first(), the early
\* parse of the timestamp and the building of ev; score_by_event_id: its query
QueryEvent(p) ==
    /\ pc[p] = "q_event"
    /\ LET existing == EventByEventId(events, req[p].event_id)
           l == [loc[p] EXCEPT !.ev = existing]
       IN  IF existing # None
           THEN Goto(p, "q_feature") /\ loc' = [loc EXCEPT ![p] = l]
           ELSE IF req[p].kind = "score_by_id"
           THEN Finish(p, l, "404 event_id not found")
           ELSE IF ~TimestampParses(req[p].timestamp)
           THEN Finish(p, l, "400 invalid timestamp format")
           ELSE Goto(p, "add_event") /\ loc' = [loc EXCEPT ![p] = l]
    /\ UNCHANGED <<dbvars, artvars, rvars, req, served>>

\* where a handler goes once it holds (ev, fr)
AfterUpsert(p, l) ==
    IF req[p].kind = "ingest"
    THEN Finish(p, l, "ok")
    ELSE /\ Goto(p, "la_check")
         /\ loc' = [loc EXCEPT ![p] = [l EXCEPT !.ret = "fc", !.epoch = rloc.completed]]

\* fr = db.query(FeatureRow).filter(event_id_fk == existing.id).first()
QueryFeature(p) ==
    /\ pc[p] = "q_feature"
    /\ LET fr == RowByFk(features, loc[p].ev)
           l == [loc[p] EXCEPT !.fr = fr]
       IN  IF fr = None
           THEN Finish(p, l, IF req[p].kind = "score_by_id"
                             THEN "404 features not found for event_id"
                             ELSE "500 event exists but features missing")
           ELSE AfterUpsert(p, l)
    /\ UNCHANGED <<dbvars, artvars, rvars, req, served>>

\* db.add(ev); db.commit(); db.refresh(ev)
AddEvent(p) ==
    /\ pc[p] = "add_event"
    /\ IF EventIdUnique(events, req[p].event_id)
       THEN /\ events' = events \cup {NewEvent(NextId(events), req[p])}
            /\ Goto(p, "compute")
            /\ loc' = [loc EXCEPT ![p].ev = NextId(events), ![p].created = TRUE]
       ELSE /\ Finish(p, loc[p], "500 IntegrityError events.event_id")
            /\ UNCHANGED events
    /\ UNCHANGED <<features, scores, model_runs, artvars, rvars, req, served>>

\* feats = compute_features(db, ev); an exception of it leaves the handler, the
\* event committed
ComputeFeatures(p) ==
    /\ pc[p] = "compute"
    /\ LET ev == EventRow(events, loc[p].ev)
       IN  \E last \in LastEventCandidates(events, ev.user_id, ev.timestamp) :
               IF compute_features_raises(events, ev, last)
               THEN Finish(p, loc[p], "500 ValueError math domain error")
               ELSE /\ loc' = [loc EXCEPT ![p].feats = compute_features(events, ev, last)]
                    /\ Goto(p, "add_feature")
    /\ UNCHANGED <<dbvars, artvars, rvars, req, served>>

\* db.add(fr); db.commit(); db.refresh(fr); return ev, fr
AddFeature(p) ==
    /\ pc[p] = "add_feature"
    /\ IF FeatureFkUnique(features, loc[p].ev)
       THEN /\ features' = features \cup
                   {NewFeatureRow(NextId(features), loc[p].ev, loc[p].feats)}
            /\ AfterUpsert(p, [loc[p] EXCEPT !.fr = NextId(features)])
       ELSE /\ Finish(p, loc[p], "500 IntegrityError features.event_id_fk")
            /\ UNCHANGED features
    /\ UNCHANGED <<events, scores, model_runs, artvars, rvars, req, served>>

-----------------------------------------------------------------------------
(* app/scoring.py: load_artifacts, feature_columns, score_feature_vector *)

NoCache == [model |-> None, scaler |-> None, threshold |-> None, feature_columns |-> None]

NoFiles == [model |-> None, scaler |-> None, threshold |-> None]

\* the artifacts of one published version, and the cache load_artifacts fills from them
FilesOf(v) == [model |-> v, scaler |-> v, threshold |-> v]

CacheOf(v) == [model |-> v, scaler |-> v, threshold |-> v, feature_columns |-> v]

\* os.path.exists(path)
Exists(f) == files[f] # None

\* the raw anomaly scores a fitted scorer may return: the scorer is opaque
RawScores == {4000, 6000}

\* the threshold fit_and_save writes for its v-th published version
ThresholdOf(v) == 4000 + 1000 * v

\* where load_artifacts returns to
AfterLoad(p) == IF loc[p].ret = "fc" THEN "fc_return" ELSE "sfv_scaler"

\* if _cached["model"] is not None: return
LoadCheck(p) ==
    /\ pc[p] = "la_check"
    /\ Goto(p, IF cached.model # None THEN AfterLoad(p) ELSE "la_exists")
    /\ UNCHANGED <<dbvars, artvars, rvars, req, loc, served>>

\* LoadExists that returns instead of raising when a file is missing
LoadExists_NoRaise(p) ==
    /\ pc[p] = "la_exists"
    /\ IF Exists("model") /\ Exists("scaler") /\ Exists("threshold")
       THEN Goto(p, "la_read_model")
       ELSE Goto(p, AfterLoad(p))
    /\ UNCHANGED <<dbvars, artvars, rvars, req, loc, served>>

\* if not (exists(MODEL_PATH) and exists(SCALER_PATH) and exists(THRESH_PATH)): raise.
\* The three tests are one step: files are created in this order and never removed,
\* so the tests pass exactly when the last of them does.
LoadExists(p) ==
    /\ pc[p] = "la_exists"
    /\ IF Exists("model") /\ Exists("scaler") /\ Exists("threshold")
       THEN Goto(p, "la_read_model") /\ UNCHANGED loc
       ELSE Finish(p, loc[p], "RuntimeError Model artifacts missing")
    /\ UNCHANGED <<dbvars, artvars, rvars, req, served>>

\* joblib.load(path) / json.load(f): the right-hand side of an assignment to _cached
LoadRead(p, at, f, next) ==
    /\ pc[p] = at
    /\ IF files[f] \in {None, Partial}
       THEN Finish(p, loc[p], "load error: file absent or incomplete")
       ELSE Goto(p, next) /\ loc' = [loc EXCEPT ![p].tmp = files[f]]
    /\ UNCHANGED <<dbvars, artvars, rvars, req, served>>

\* _cached[k] = <the value read>
LoadStore(p, at, k, next) ==
    /\ pc[p] = at
    /\ cached' = [cached EXCEPT ![k] = loc[p].tmp]
    /\ Goto(p, next)
    /\ UNCHANGED <<dbvars, files, rvars, req, loc, served>>

LoadReadModel(p) == LoadRead(p, "la_read_model", "model", "la_store_model")
LoadStoreModel(p) == LoadStore(p, "la_store_model", "model", "la_read_scaler")
LoadReadScaler(p) == LoadRead(p, "la_read_scaler", "scaler", "la_store_scaler")
LoadStoreScaler(p) == LoadStore(p, "la_store_scaler", "scaler", "la_read_threshold")
LoadReadThreshold(p) == LoadRead(p, "la_read_threshold", "threshold", "la_store_threshold")
LoadStoreThreshold(p) == LoadStore(p, "la_store_threshold", "threshold", "la_store_columns")

\* _cached["feature_columns"] = list(t["feature_columns"]); load_artifacts returns
LoadStoreColumns(p) ==
    /\ pc[p] = "la_store_columns"
    /\ cached' = [cached EXCEPT !.feature_columns = loc[p].tmp]
    /\ Goto(p, AfterLoad(p))
    /\ UNCHANGED <<dbvars, files, rvars, req, loc, served>>

\* feature_columns(): return list(_cached["feature_columns"]); then main.score builds
\* feature_values and calls score_feature_vector, which calls load_artifacts again
FeatureColumns(p) ==
    /\ pc[p] = "fc_return"
    /\ IF cached.feature_columns = None
       THEN Finish(p, loc[p], "TypeError feature_columns is None")
       ELSE /\ Goto(p, "la_check")
            /\ loc' = [loc EXCEPT ![p].cols = cached.feature_columns, ![p].ret = "sfv"]
    /\ UNCHANGED <<dbvars, artvars, rvars, req, served>>

\* Xs = _cached["scaler"].transform(X)
ScoreScaler(p) ==
    /\ pc[p] = "sfv_scaler"
    /\ IF cached.scaler = None
       THEN Finish(p, loc[p], "AttributeError scaler is None")
       ELSE Goto(p, "sfv_model") /\ loc' = [loc EXCEPT ![p].scaler = cached.scaler]
    /\ UNCHANGED <<dbvars, artvars, rvars, req, served>>

\* anomaly_score = float(-_cached["model"].score_samples(Xs)[0])
ScoreModel(p) ==
    /\ pc[p] = "sfv_model"
    /\ IF cached.model = None
       THEN Finish(p, loc[p], "AttributeError model is None")
       ELSE /\ Goto(p, "sfv_threshold")
            /\ \E raw \in RawScores :
                   loc' = [loc EXCEPT ![p].model = cached.model, ![p].anomaly_score = raw]
    /\ UNCHANGED <<dbvars, artvars, rvars, req, served>>

\* threshold = float(_cached["threshold"]); flagged, risk; return
ScoreThreshold(p) ==
    /\ pc[p] = "sfv_threshold"
    /\ IF cached.threshold = None
       THEN Finish(p, loc[p], "TypeError threshold is None")
       ELSE /\ Goto(p, "reasons")
            /\ loc' = [loc EXCEPT
                   ![p].threshold = cached.threshold,
                   ![p].flagged = flagged(loc[p].anomaly_score, ThresholdOf(cached.threshold)),
                   ![p].risk_score =
                       risk_score(loc[p].anomaly_score, ThresholdOf(cached.threshold))]
    /\ UNCHANGED <<dbvars, artvars, rvars, req, served>>

\* reasons = build_reasons(db, ev, fr)
BuildReasons(p) ==
    /\ pc[p] = "reasons"
    /\ loc' = [loc EXCEPT ![p].reasons =
                  build_reasons(events, EventRow(events, loc[p].ev),
                                FeatureOf(features, loc[p].fr))]
    /\ Goto(p, "q_score")
    /\ UNCHANGED <<dbvars, artvars, rvars, req, served>>

\* upsert_score_row: existing_score = db.query(ScoreRow)...first()
QueryScore(p) ==
    /\ pc[p] = "q_score"
    /\ loc' = [loc EXCEPT ![p].sr = RowByFk(scores, loc[p].ev)]
    /\ Goto(p, "commit_score")
    /\ UNCHANGED <<dbvars, artvars, rvars, req, served>>

\* upsert_score_row: db.add(sr) or the update of existing_score; db.commit(); the response
CommitScore(p) ==
    /\ pc[p] = "commit_score"
    /\ IF loc[p].sr = None
       THEN IF ScoreFkUnique(scores, loc[p].ev)
            THEN /\ scores' = scores \cup {NewScoreRow(NextId(scores), loc[p].ev, loc[p])}
                 /\ Finish(p, loc[p], "ok")
            ELSE /\ Finish(p, loc[p], "500 IntegrityError scores.event_id_fk")
                 /\ UNCHANGED scores
       ELSE /\ scores' = {x \in scores : x.id # loc[p].sr}
                             \cup {NewScoreRow(loc[p].sr, loc[p].ev, loc[p])}
            /\ Finish(p, loc[p], "ok")
    /\ UNCHANGED <<events, features, model_runs, artvars, rvars, req, served>>

-----------------------------------------------------------------------------
(* The /retrain thread: main.retrain, training/train.py fit_and_save and    *)
(* scoring.reset_cache                                                      *)

\* retrain(): fit_and_save reads the feature rows and fits; with fewer than 50 rows it
\* raises.  The tables of the model hold the rows the requests of a behaviour touch,
\* not the whole store, so whether there are enough rows is left open.
RetrainStart ==
    /\ rpc = "idle"
    /\ rloc.runs < MaxRetrains
    /\ \E enough \in BOOLEAN :
           IF enough
           THEN /\ rpc' = "open_model"
                /\ rloc' = [rloc EXCEPT !.runs = @ + 1, !.version = rloc.published + 1]
           ELSE /\ rpc' = "idle"
                /\ rloc' = [rloc EXCEPT !.runs = @ + 1]
    /\ UNCHANGED <<dbvars, artvars, tvars>>

\* joblib.dump(obj, path) / open(THRESH_PATH, "w"): the file is created or truncated
FitOpen(at, f, next) ==
    /\ rpc = at
    /\ files' = [files EXCEPT ![f] = Partial]
    /\ rpc' = next
    /\ UNCHANGED <<dbvars, cached, tvars, rloc>>

\* the write completes and the file is closed
FitDump(at, f, next) ==
    /\ rpc = at
    /\ files' = [files EXCEPT ![f] = rloc.version]
    /\ rpc' = next
    /\ UNCHANGED <<dbvars, cached, tvars, rloc>>

FitOpenModel == FitOpen("open_model", "model", "dump_model")
FitDumpModel == FitDump("dump_model", "model", "open_scaler")
FitOpenScaler == FitOpen("open_scaler", "scaler", "dump_scaler")
FitDumpScaler == FitDump("dump_scaler", "scaler", "open_threshold")
FitOpenThreshold == FitOpen("open_threshold", "threshold", "dump_threshold")

\* json.dump(payload, f); fit_and_save returns
FitDumpThreshold ==
    /\ rpc = "dump_threshold"
    /\ files' = [files EXCEPT !.threshold = rloc.version]
    /\ rpc' = "reset_model"
    /\ rloc' = [rloc EXCEPT !.published = rloc.version]
    /\ UNCHANGED <<dbvars, cached, tvars>>

\* reset_cache: _cached[k] = None, one key per statement
ResetField(at, k, next) ==
    /\ rpc = at
    /\ cached' = [cached EXCEPT ![k] = None]
    /\ rpc' = next
    /\ UNCHANGED <<dbvars, files, tvars, rloc>>

ResetModel == ResetField("reset_model", "model", "reset_scaler")
ResetScaler == ResetField("reset_scaler", "scaler", "reset_threshold")
ResetThreshold == ResetField("reset_threshold", "threshold", "reset_columns")

\* the last statement of reset_cache
ResetColumns ==
    /\ rpc = "reset_columns"
    /\ cached' = [cached EXCEPT !.feature_columns = None]
    /\ rpc' = "record_run"
    /\ rloc' = [rloc EXCEPT !.completed = rloc.version]
    /\ UNCHANGED <<dbvars, files, tvars>>

\* db.add(ModelRun(...)); db.commit(); the response
RecordRun ==
    /\ rpc = "record_run"
    /\ model_runs' = model_runs \cup {rloc.version}
    /\ rpc' = "idle"
    /\ UNCHANGED <<events, features, scores, artvars, tvars, rloc>>

-----------------------------------------------------------------------------
(* Specifications *)

\* two places of the test suite: Chicago and Los Angeles, in whole degrees
Places == {<<41, -87>>, <<34, -118>>}

Request(kind, eid, user, merchant, amount, ts, place, device, ip) ==
    [ kind |-> kind, event_id |-> eid, user_id |-> user, merchant_id |-> merchant,
      amount |-> amount, timestamp |-> ts, lat |-> place[1], lon |-> place[2],
      device_id |-> device, ip |-> ip ]

InitRetrain(published) == [runs |-> 0, version |-> None, published |-> published, completed |-> None]

\* the artifacts directory before the service starts: empty, or holding the files of
\* an earlier training run; the cache of a fresh process is empty
InitArtifacts ==
    /\ files \in {NoFiles, FilesOf(1)}
    /\ cached = NoCache

InitThreads ==
    /\ pc = [p \in Threads |-> "idle"]
    /\ req = [p \in Threads |-> NoReq]
    /\ loc = [p \in Threads |-> InitLoc]
    /\ served = 0

ThreadStep(p) ==
    \/ QueryEvent(p)
    \/ QueryFeature(p)
    \/ AddEvent(p)
    \/ ComputeFeatures(p)
    \/ AddFeature(p)

ScoringStep(p) ==
    \/ LoadCheck(p)
    \/ LoadExists(p)
    \/ LoadReadModel(p)
    \/ LoadStoreModel(p)
    \/ LoadReadScaler(p)
    \/ LoadStoreScaler(p)
    \/ LoadReadThreshold(p)
    \/ LoadStoreThreshold(p)
    \/ LoadStoreColumns(p)
    \/ FeatureColumns(p)
    \/ ScoreScaler(p)
    \/ ScoreModel(p)
    \/ ScoreThreshold(p)
    \/ BuildReasons(p)
    \/ QueryScore(p)
    \/ CommitScore(p)

RetrainStep ==
    \/ RetrainStart
    \/ FitOpenModel
    \/ FitDumpModel
    \/ FitOpenScaler
    \/ FitDumpScaler
    \/ FitOpenThreshold
    \/ FitDumpThreshold
    \/ ResetModel
    \/ ResetScaler
    \/ ResetThreshold
    \/ ResetColumns
    \/ RecordRun

(* Spec: one client; /ingest, /score and /retrain requests served one after the other *)

SeqRequests ==
    {Request(k, e, "u1", "m1", 50, ts, <<41, -87>>, "d1", "ip1") :
        k \in {"ingest", "score"}, e \in {"e1", "e2"}, ts \in {3600, 3900}}

Init ==
    /\ events = {}
    /\ features = {}
    /\ scores = {}
    /\ model_runs = {}
    /\ InitArtifacts
    /\ InitThreads
    /\ rpc = "idle"
    /\ rloc = InitRetrain(IF files = NoFiles THEN 0 ELSE 1)

SeqReceive == rpc = "idle" /\ \E r \in SeqRequests : Receive(1, r, MaxSeqRequests)

SeqThread == ThreadStep(1) \/ ScoringStep(1)

SeqRetrain == pc[1] \in {"idle", "done"} /\ RetrainStep

Next == SeqReceive \/ SeqThread \/ SeqRetrain

Spec == Init /\ [][Next]_vars

(* SpecIngest: concurrent /ingest requests, one per thread *)

IngestRequests ==
    {Request("ingest", e, "u1", "m1", 50, ts, <<41, -87>>, "d1", "ip1") :
        e \in {"e1", "e2"}, ts \in {3600, 3900}}

InitIngest ==
    /\ events = {}
    /\ features = {}
    /\ scores = {}
    /\ model_runs = {}
    /\ files = NoFiles
    /\ cached = NoCache
    /\ InitThreads
    /\ rpc = "idle"
    /\ rloc = InitRetrain(0)

IngestReceive(p) == pc[p] = "idle" /\ \E r \in IngestRequests : Receive(p, r, NThreads)

NextIngest == \E p \in Threads : IngestReceive(p) \/ ThreadStep(p)

SpecIngest == InitIngest /\ [][NextIngest]_vars

(* SpecModel: concurrent /score-by-event-id requests, one per thread, on a stored *)
(* event, and the /retrain thread                                                *)

StoredEvent == NewEvent(1, Request("ingest", "e1", "u1", "m1", 50, 3600, <<41, -87>>, "d1", "ip1"))

StoredFeature == NewFeatureRow(1, 1, compute_features({StoredEvent}, StoredEvent, None))

ScoreByIdRequest == [kind |-> "score_by_id", event_id |-> "e1"]

\* the process may have served scoring calls before: its cache is empty or loaded
InitModel ==
    /\ events = {StoredEvent}
    /\ features = {StoredFeature}
    /\ scores = {}
    /\ model_runs = {}
    /\ files \in {NoFiles, FilesOf(1)}
    /\ cached \in IF files = NoFiles THEN {NoCache} ELSE {NoCache, CacheOf(1)}
    /\ InitThreads
    /\ rpc = "idle"
    /\ rloc = InitRetrain(IF files = NoFiles THEN 0 ELSE 1)

ModelReceive(p) == pc[p] = "idle" /\ Receive(p, ScoreByIdRequest, NThreads)

ModelLookup(p) == QueryEvent(p) \/ QueryFeature(p)

NextModel == (\E p \in Threads : ModelReceive(p) \/ ModelLookup(p) \/ ScoringStep(p)) \/ RetrainStep

SpecModel == InitModel /\ [][NextModel]_vars

(* SpecWin, SpecNov: one client ingesting new events one after the other.  SpecWin *)
(* varies user, timestamp and amount; SpecNov varies user, timestamp, merchant,    *)
(* device, IP address and place.  Identifiers are new, so no request finds a      *)
(* stored event.                                                                   *)

\* the identifier of the n-th event a client sends
EventIdOf(n) == <<"e1", "e2", "e3", "e4", "e5", "e6">>[n]

\* timestamps exactly 5 minutes, exactly 1 hour and one second more than that apart
WinTimes == {0, 3300, 3600, 3601}

WinRequests ==
    {Request("ingest", EventIdOf(served + 1), u, "m1", a, ts, <<41, -87>>, "d1", "ip1") :
        u \in {"u1", "u2"}, a \in {20, 50}, ts \in WinTimes}

\* user u1 varies every field; the other user, u2, sends one profile at either time
NovRequests ==
    {Request("ingest", EventIdOf(served + 1), "u1", m, 50, ts, pl, d, i) :
        m \in {"m1", "m2"}, ts \in {3600, 3900}, pl \in Places,
        d \in {"d1", "d2"}, i \in {"ip1", "ip2"}}
    \cup
    {Request("ingest", EventIdOf(served + 1), "u2", "m1", 50, ts, <<34, -118>>, "d1", "ip1") :
        ts \in {3600, 3900}}

\* the steps of a request bearing a new identifier
NewEventStep(p) == QueryEvent(p) \/ AddEvent(p) \/ ComputeFeatures(p) \/ AddFeature(p)

WinReceive == \E r \in WinRequests : Receive(1, r, MaxWinEvents)

NextWin == WinReceive \/ NewEventStep(1)

SpecWin == InitIngest /\ [][NextWin]_vars

NovReceive == \E r \in NovRequests : Receive(1, r, MaxNovEvents)

NextNov == NovReceive \/ NewEventStep(1)

SpecNov == InitIngest /\ [][NextNov]_vars

(* SpecScore: the arithmetic of score_feature_vector, on every raw score the scorer *)
(* may return and every threshold the threshold file may hold                       *)

\* a quarter, in FP units: raw scores and thresholds are whole multiples of it
ScoreStep == 2500

ScoreValues == {k * ScoreStep : k \in (0 - MaxScoreSteps) .. MaxScoreSteps}

\* a call of score_feature_vector past its reads of _cached: the scorer returned
\* anomaly_score and _cached["threshold"] holds threshold
ScoreCall(raw, th) == [kind |-> "sfv", anomaly_score |-> raw, threshold |-> th]

InitScore ==
    /\ events = {}
    /\ features = {}
    /\ scores = {}
    /\ model_runs = {}
    /\ files = FilesOf(1)
    /\ cached = CacheOf(1)
    /\ pc = [p \in Threads |-> IF p = 1 THEN "sfv_arith" ELSE "idle"]
    /\ \E raw \in ScoreValues, th \in ScoreValues :
           req = [p \in Threads |-> IF p = 1 THEN ScoreCall(raw, th) ELSE NoReq]
    /\ loc = [p \in Threads |-> InitLoc]
    /\ served = 1
    /\ rpc = "idle"
    /\ rloc = InitRetrain(1)

\* flagged = anomaly_score >= threshold; risk; return anomaly_score, risk, flagged
ScoreArithmetic(p) ==
    /\ pc[p] = "sfv_arith"
    /\ loc' = [loc EXCEPT
           ![p].anomaly_score = req[p].anomaly_score,
           ![p].flagged = flagged(req[p].anomaly_score, req[p].threshold),
           ![p].risk_score = risk_score(req[p].anomaly_score, req[p].threshold),
           ![p].status = "ok"]
    /\ Goto(p, "done")
    /\ UNCHANGED <<dbvars, artvars, rvars, req, served>>

NextScore == ScoreArithmetic(1)

SpecScore == InitScore /\ [][NextScore]_vars

(* SpecReasons, SpecSpike: a /score-by-event-id call that has scored its event and  *)
(* is about to call build_reasons, on a store that holds the event, its feature row *)
(* and the user's earlier events.  The feature rows of the earlier events are left  *)
(* out: build_reasons reads the events table and the one feature row it is passed.  *)
(* SpecReasons varies the feature row; SpecSpike varies the earlier events.         *)

HistEventId(i) == <<"e", i>>

\* the i-th earlier event of user u1: one a day, at noon
HistEvent(i, amount) ==
    NewEvent(i, Request("ingest", HistEventId(i), "u1", "m1", amount,
                        i * 86400 + 43200, <<41, -87>>, "d1", "ip1"))

\* n earlier events, the k oldest with amount lo and the others with amount hi
History(n, k, lo, hi) == {HistEvent(i, IF i <= k THEN lo ELSE hi) : i \in 1 .. n}

\* the event being scored, the day after the n-th earlier one
ScoredEvent(n, amount) == HistEvent(n + 1, amount)

\* the locals of score_by_event_id before reasons = build_reasons(db, ev, fr)
ScoredLoc(evid) ==
    [ InitLoc EXCEPT !.ev = evid, !.fr = 1, !.ret = "sfv", !.epoch = 1,
                     !.cols = 1, !.scaler = 1, !.model = 1, !.threshold = 1,
                     !.anomaly_score = 4000,
                     !.risk_score = risk_score(4000, ThresholdOf(1)),
                     !.flagged = flagged(4000, ThresholdOf(1)) ]

InitBeforeReasons(evid) ==
    /\ scores = {}
    /\ model_runs = {1}
    /\ files = FilesOf(1)
    /\ cached = CacheOf(1)
    /\ pc = [p \in Threads |-> IF p = 1 THEN "reasons" ELSE "idle"]
    /\ req = [p \in Threads |->
                IF p = 1 THEN [kind |-> "score_by_id", event_id |-> HistEventId(evid)]
                ELSE NoReq]
    /\ loc = [p \in Threads |-> IF p = 1 THEN ScoredLoc(evid) ELSE InitLoc]
    /\ served = 1
    /\ rpc = "idle"
    /\ rloc = [runs |-> 1, version |-> 1, published |-> 1, completed |-> 1]

\* the values of the rule columns on either side of each rule's limit
RuleVectors ==
    [ is_new_device : {0, 1}, is_new_ip : {0, 1}, is_new_merchant : {0, 1},
      speed_kmph : {SPEED_LIMIT * KM - 1, SPEED_LIMIT * KM},
      tx_count_5m : {VELOCITY_LIMIT - 1, VELOCITY_LIMIT},
      spend_1h : {SPEND_LIMIT - 1, SPEND_LIMIT} ]

\* a stored feature row holding the rule columns v
RuleFeatureRow(fk, v) ==
    NewFeatureRow(1, fk,
        [ NoFeats EXCEPT !.is_new_device = v.is_new_device, !.is_new_ip = v.is_new_ip,
                         !.is_new_merchant = v.is_new_merchant,
                         !.speed_kmph = v.speed_kmph, !.tx_count_5m = v.tx_count_5m,
                         !.spend_1h = v.spend_1h ])

\* ten earlier events of amount 50; the scored amount is just below or at 4 x 50
InitReasons ==
    /\ \E amount \in {SPIKE_FACTOR * 50 - 1, SPIKE_FACTOR * 50} :
           events = History(SPIKE_MIN_PRIOR, 0, 50, 50)
                       \cup {ScoredEvent(SPIKE_MIN_PRIOR, amount)}
    /\ \E v \in RuleVectors : features = {RuleFeatureRow(SPIKE_MIN_PRIOR + 1, v)}
    /\ InitBeforeReasons(SPIKE_MIN_PRIOR + 1)

\* the steps of score_by_event_id from build_reasons on
NextReasons == BuildReasons(1) \/ QueryScore(1) \/ CommitScore(1)

SpecReasons == InitReasons /\ [][NextReasons]_vars

\* the amounts of SpecSpike: earlier events of 0, 50 or 100; scored events just below
\* and at 4 x 50 and 4 x 100
InitSpike ==
    /\ \E n \in 0 .. MaxPriorEvents :
       \E k \in 0 .. n :
       \E lo \in {0, 50} :
       \E amount \in {SPIKE_FACTOR * 50 - 1, SPIKE_FACTOR * 50,
                       SPIKE_FACTOR * 100 - 1, SPIKE_FACTOR * 100} :
           LET db == History(n, k, lo, 100) \cup {ScoredEvent(n, amount)}
               ev == ScoredEvent(n, amount)
           IN  /\ events = db
               /\ features = {NewFeatureRow(1, n + 1, compute_features(db, ev, n))}
               /\ InitBeforeReasons(n + 1)

SpecSpike == InitSpike /\ [][NextReasons]_vars

(* SpecMalformed: one client; /ingest and /score requests served one after the     *)
(* other, some with a timestamp that does not parse, some with a negative amount   *)

MalformedRequests ==
    {Request(k, e, "u1", "m1", a, ts, <<41, -87>>, "d1", "ip1") :
        k \in {"ingest", "score"}, e \in {"e1", "e2"}, a \in {-5, 50},
        ts \in {BadTimestamp, 3600}}

MalformedReceive == \E r \in MalformedRequests : Receive(1, r, MaxSeqRequests)

NextMalformed == MalformedReceive \/ ThreadStep(1) \/ ScoringStep(1)

SpecMalformed == Init /\ [][NextMalformed]_vars

(* SpecGeo: one user ingesting new events one after the other, an hour apart, from *)
(* places all over the globe                                                      *)

\* Chicago, Los Angeles, the point opposite Chicago, Sydney, the origin, the north pole
GeoPlaces == {<<41, -87>>, <<34, -118>>, <<-41, 93>>, <<-33, 151>>, <<0, 0>>, <<90, 0>>}

GeoRequests ==
    {Request("ingest", EventIdOf(served + 1), "u1", "m1", 50, WINDOW_1H * (served + 1),
             pl, "d1", "ip1") : pl \in GeoPlaces}

GeoReceive == \E r \in GeoRequests : Receive(1, r, MaxGeoEvents)

NextGeo == GeoReceive \/ NewEventStep(1)

SpecGeo == InitIngest /\ [][NextGeo]_vars

(* SpecCache: one client; /score-by-event-id calls on a stored event and /retrain   *)
(* calls served one after the other, in a process started on an artifacts directory *)
(* that holds a complete set of files or one whose threshold file is incomplete     *)
(* (a fit_and_save that was interrupted after it opened the file for writing)       *)

TruncatedThreshold == [model |-> 1, scaler |-> 1, threshold |-> Partial]

InitCache ==
    /\ events = {StoredEvent}
    /\ features = {StoredFeature}
    /\ scores = {}
    /\ model_runs = {}
    /\ files \in {FilesOf(1), TruncatedThreshold}
    /\ cached = NoCache
    /\ InitThreads
    /\ rpc = "idle"
    /\ rloc = InitRetrain(1)

CacheReceive == rpc = "idle" /\ Receive(1, ScoreByIdRequest, MaxSeqRequests)

NextCache == CacheReceive \/ ModelLookup(1) \/ ScoringStep(1) \/ SeqRetrain

SpecCache == InitCache /\ [][NextCache]_vars

(* SpecFail: one client; /ingest requests served one after the other, some with a  *)
(* latitude at either end of the float range: the request model accepts any float  *)

\* Chicago, and two points whose latitudes are further apart than FLOAT_MAX
FailPlaces == {<<41, -87>>, <<50000, 0>>, <<-50000, 0>>}

FailRequests ==
    {Request("ingest", e, "u1", "m1", 50, ts, pl, "d1", "ip1") :
        e \in {"e1", "e2"}, ts \in {3600, 3900}, pl \in FailPlaces}

FailReceive == \E r \in FailRequests : Receive(1, r, MaxSeqRequests)

NextFail == FailReceive \/ ThreadStep(1)

SpecFail == InitIngest /\ [][NextFail]_vars

-----------------------------------------------------------------------------
(* Properties *)

\* the ids of the stored events bearing identifier eid, and of their feature rows
EventIdsOf(eid) == {e.id : e \in {x \in events : x.event_id = eid}}

FeatureIdsOf(eid) == {f.id : f \in {x \in features : x.event_id_fk \in EventIdsOf(eid)}}

Upserting(p) == req[p].kind \in {"ingest", "score"} /\ pc[p] \in {"q_event", "q_feature"}

\* C1: served one after the other, a request bearing an identifier that is stored with
\* its feature row inserts no Event and no FeatureRow and comes out of the upsert
\* holding the stored event and the stored feature row, whatever its other fields
\* are; and no step changes or removes a stored feature row.
C1_IdempotentIngestion ==
    [][ /\ \A f \in features : f \in features'
        /\ \A p \in Threads :
              (Upserting(p) /\ FeatureIdsOf(req[p].event_id) # {}) =>
                  /\ events' = events
                  /\ features' = features
                  /\ pc'[p] \in {"q_event", "q_feature", "la_check", "done"}
                  /\ pc'[p] \in {"la_check", "done"} =>
                         /\ loc'[p].ev \in EventIdsOf(req[p].event_id)
                         /\ loc'[p].fr \in FeatureIdsOf(req[p].event_id)
                         /\ loc'[p].status \in {"", "ok"}
                         /\ ~loc'[p].created ]_vars

\* a re-submission that differs from the stored event got the stored rows back
C1_Witness ==
    /\ pc[1] = "done"
    /\ req[1].kind = "ingest"
    /\ loc[1].status = "ok"
    /\ ~loc[1].created
    /\ loc[1].fr \in FeatureIdsOf(req[1].event_id)
    /\ \E e \in events : e.id = loc[1].ev /\ e.timestamp # req[1].timestamp

\* C2: under every interleaving of concurrent requests, an event identifier has at
\* most one Event row and at most one FeatureRow, and at most one request inserted
\* the event and so computes its feature vector.
C2_OneEventOneFeatureRow ==
    \A eid \in {e.event_id : e \in events} :
        /\ Cardinality(EventIdsOf(eid)) = 1
        /\ Cardinality(FeatureIdsOf(eid)) <= 1
        /\ Cardinality({p \in Threads : req[p].kind # "none" /\ req[p].event_id = eid
                                          /\ loc[p].created}) <= 1

\* two requests bearing one identifier both found no stored event; one inserted it
\* and stored its feature row, the other's insert was refused
C2_Witness ==
    \E p, q \in Threads :
        /\ p # q
        /\ req[p].kind = "ingest" /\ req[q].kind = "ingest"
        /\ req[p].event_id = req[q].event_id
        /\ req[p].timestamp # req[q].timestamp
        /\ pc[p] = "done" /\ loc[p].created /\ loc[p].status = "ok"
        /\ pc[q] = "done" /\ loc[q].status = "500 IntegrityError events.event_id"

\* C3: of two concurrent requests bearing one identifier, neither ends in an error:
\* each returns the stored event and feature row.
C3_SecondArrivalReturnsStored ==
    \A p, q \in Threads :
        (p # q /\ pc[p] = "done" /\ req[q].kind # "none"
              /\ req[p].event_id = req[q].event_id) =>
            /\ loc[p].status = "ok"
            /\ loc[p].ev \in EventIdsOf(req[p].event_id)
            /\ loc[p].fr \in FeatureIdsOf(req[p].event_id)

NonePartErrors ==
    { "TypeError feature_columns is None", "AttributeError scaler is None",
      "AttributeError model is None", "TypeError threshold is None" }

\* the parts of the model a scoring call has used so far
UsedParts(p) == {loc[p].cols, loc[p].scaler, loc[p].model, loc[p].threshold} \ {None}

\* C4: every scoring call uses a scaler, a scorer, a threshold and a column list of
\* one published version, and never finds one of them None.
C4_ScoringUsesOneVersion ==
    \A p \in Threads :
        /\ Cardinality(UsedParts(p)) <= 1
        /\ loc[p].status \notin NonePartErrors

\* C5: a scoring call that starts after a retrain has returned from reset_cache uses
\* no part older than the version that retrain published.
C5_OnlyNewModelAfterRetrain ==
    \A p \in Threads :
        loc[p].epoch # None => \A v \in UsedParts(p) : v >= loc[p].epoch

\* a /score or /score-by-event-id handler that has called feature_columns
CalledScoring(p) == loc[p].ret # ""

RunningScoring(p) ==
    pc[p] \notin {"idle", "q_event", "q_feature", "add_event", "compute", "add_feature",
                  "la_check", "la_exists", "done"}

\* C6: while a model, scaler or threshold file is absent and the cache is empty, a
\* handler that calls feature_columns ends at the existence test with the missing
\* artifacts error: it goes no further, holds no score, and no ScoreRow is stored.
C6_MissingArtifactFails ==
    ((\E f \in DOMAIN files : files[f] = None) /\ cached = NoCache) =>
        /\ scores = {}
        /\ \A p \in Threads :
              /\ ~RunningScoring(p)
              /\ (pc[p] = "done" /\ CalledScoring(p)) =>
                     /\ loc[p].status = "RuntimeError Model artifacts missing"
                     /\ UsedParts(p) = {}
                     /\ loc[p].risk_score = 0 /\ loc[p].anomaly_score = 0

\* a /score request failed for want of artifacts
C6_Witness ==
    /\ files = NoFiles
    /\ cached = NoCache
    /\ pc[1] = "done"
    /\ req[1].kind = "score"
    /\ CalledScoring(1)
    /\ loc[1].status = "RuntimeError Model artifacts missing"
    /\ scores = {}

\* C7: a /score request on a new event either stores the feature row and the score
\* row (with its reasons) and answers, or leaves no feature row and no score row
\* of that event.
C7_AllOrNothing ==
    \A p \in Threads :
        (pc[p] = "done" /\ req[p].kind = "score" /\ loc[p].created) =>
            \/ /\ loc[p].status = "ok"
               /\ \E f \in features : f.event_id_fk = loc[p].ev
               /\ \E x \in scores : x.event_id_fk = loc[p].ev
            \/ /\ ~\E f \in features : f.event_id_fk = loc[p].ev
               /\ ~\E x \in scores : x.event_id_fk = loc[p].ev

\* the request of thread p inserted a new event and stored its feature row
Ingested(p) == pc[p] = "done" /\ loc[p].created /\ loc[p].status = "ok"

\* the event of thread p's request, its feature row, and the same user's other rows
EventOfRequest(p) == EventRow(events, loc[p].ev)

FeaturesOfRequest(p) == FeatureOf(features, loc[p].fr)

SameUserBefore(ev) == {e \in events : e.user_id = ev.user_id /\ e.timestamp < ev.timestamp}

\* C8: the feature row of an event with timestamp t holds, of the same user's stored
\* events, the number with timestamp in [t - 300 s, t), the number with timestamp in
\* [t - 3600 s, t) and the sum of the amounts of the latter.
C8_WindowCounts ==
    \A p \in Threads :
        Ingested(p) =>
            LET ev == EventOfRequest(p)
                f  == FeaturesOfRequest(p)
                w5 == {e \in SameUserBefore(ev) : e.timestamp >= ev.timestamp - 300}
                w1 == {e \in SameUserBefore(ev) : e.timestamp >= ev.timestamp - 3600}
            IN  /\ f.tx_count_5m = Cardinality(w5)
                /\ f.tx_count_1h = Cardinality(w1)
                /\ f.spend_1h = SumAmounts(w1)

\* an event with one of the user's events exactly 5 minutes and another exactly one
\* hour before it: both are counted
C8_Witness ==
    /\ Ingested(1)
    /\ \E a, b \in events :
          /\ a.user_id = EventOfRequest(1).user_id
          /\ b.user_id = EventOfRequest(1).user_id
          /\ a.timestamp = EventOfRequest(1).timestamp - 300
          /\ b.timestamp = EventOfRequest(1).timestamp - 3600
          /\ a.amount # b.amount
    /\ FeaturesOfRequest(1).tx_count_5m = 1
    /\ FeaturesOfRequest(1).tx_count_1h = 2
    /\ FeaturesOfRequest(1).spend_1h = 70

\* C9: each novelty flag is 0 exactly when a stored event of the same user with a
\* strictly earlier timestamp carries the same merchant (device, IP address), else 1.
C9_NoveltyFlags ==
    \A p \in Threads :
        Ingested(p) =>
            LET ev == EventOfRequest(p)
                f  == FeaturesOfRequest(p)
            IN  /\ f.is_new_merchant \in {0, 1}
                /\ f.is_new_device \in {0, 1}
                /\ f.is_new_ip \in {0, 1}
                /\ f.is_new_merchant = 0 <=>
                       \E e \in SameUserBefore(ev) : e.merchant_id = ev.merchant_id
                /\ f.is_new_device = 0 <=>
                       \E e \in SameUserBefore(ev) : e.device_id = ev.device_id
                /\ f.is_new_ip = 0 <=>
                       \E e \in SameUserBefore(ev) : e.ip = ev.ip

\* an event whose merchant and IP address the user has used before, on a new device
C9_Witness ==
    /\ Ingested(1)
    /\ SameUserBefore(EventOfRequest(1)) # {}
    /\ FeaturesOfRequest(1).is_new_merchant = 0
    /\ FeaturesOfRequest(1).is_new_device = 1
    /\ FeaturesOfRequest(1).is_new_ip = 0

\* C10: the feature row of an event whose user has no stored event with a strictly
\* earlier timestamp has distance 0, speed 0, both counts 0 and the three flags 1.
C10_NoPriorEvent ==
    \A p \in Threads :
        (Ingested(p) /\ SameUserBefore(EventOfRequest(p)) = {}) =>
            LET f == FeaturesOfRequest(p)
            IN  /\ f.distance_from_last_km = 0
                /\ f.speed_kmph = 0
                /\ f.tx_count_5m = 0
                /\ f.tx_count_1h = 0
                /\ f.is_new_merchant = 1
                /\ f.is_new_device = 1
                /\ f.is_new_ip = 1

\* a user's first event, stored after an earlier event of another user made elsewhere
\* with the same merchant, device and IP address
C10_Witness ==
    /\ Ingested(1)
    /\ SameUserBefore(EventOfRequest(1)) = {}
    /\ \E e \in events :
          /\ e.user_id # EventOfRequest(1).user_id
          /\ e.timestamp < EventOfRequest(1).timestamp
          /\ e.lat # EventOfRequest(1).lat
          /\ e.merchant_id = EventOfRequest(1).merchant_id
          /\ e.device_id = EventOfRequest(1).device_id
          /\ e.ip = EventOfRequest(1).ip
    /\ FeaturesOfRequest(1).distance_from_last_km = 0

\* a call of score_feature_vector that has returned
Scored(p) == req[p].kind = "sfv" /\ pc[p] = "done"

\* C11: for every raw score and threshold the risk score returned lies in [0, 100]
\* percent; it is 0 when the threshold is <= 0, and otherwise it is 100 raw / threshold
\* (to the resolution of a risk score), 0 when that is below 0 and 100 when above 100.
C11_RiskScoreClamped ==
    \A p \in Threads :
        Scored(p) =>
            LET raw  == req[p].anomaly_score
                th   == req[p].threshold
                risk == loc[p].risk_score
            IN  /\ risk >= 0
                /\ risk <= 100 * PCT
                /\ th <= 0 => risk = 0
                /\ (th > 0 /\ raw < 0) => risk = 0
                /\ (th > 0 /\ raw > th) => risk = 100 * PCT
                /\ (th > 0 /\ raw >= 0 /\ raw <= th) =>
                       /\ risk * th <= 100 * PCT * raw
                       /\ 100 * PCT * raw < (risk + 1) * th

\* a raw score above a positive threshold came out as 100
C11_Witness ==
    /\ Scored(1)
    /\ req[1].threshold > 0
    /\ req[1].anomaly_score > req[1].threshold
    /\ loc[1].risk_score = 100 * PCT

\* C12: for every raw score and threshold, a threshold <= 0 included, the call returns
\* flagged = true exactly when raw >= threshold; a raw score equal to the threshold
\* is flagged.
C12_FlaggedIffAtLeastThreshold ==
    \A p \in Threads :
        Scored(p) =>
            /\ loc[p].flagged <=> (req[p].anomaly_score >= req[p].threshold)
            /\ req[p].anomaly_score = req[p].threshold => loc[p].flagged

\* a raw score equal to a threshold below 0 is flagged
C12_Witness ==
    /\ Scored(1)
    /\ req[1].threshold < 0
    /\ req[1].anomaly_score = req[1].threshold
    /\ loc[1].flagged

\* build_reasons has returned to thread p and its result is in hand
ReasonsBuilt(p) == pc[p] \in {"q_score", "commit_score"}

ReturnedReasons(p) == loc[p].reasons

Returned(p, kind) ==
    \E i \in 1 .. Len(ReturnedReasons(p)) : ReturnedReasons(p)[i].reason = kind

\* the same user's stored events the amount_spike rule samples: of those strictly
\* earlier than ev, the ones fewer than 30 others are more recent than
SpikeSampleOf(ev) ==
    LET prior == SameUserBefore(ev)
    IN  {e \in prior :
            Cardinality({y \in prior : y.timestamp > e.timestamp}) < SPIKE_SAMPLE}

\* the k-th smallest amount (k = 1 for the smallest) among the events S
AmountOfRank(S, k) ==
    CHOOSE m \in {e.amount : e \in S} :
        /\ Cardinality({e \in S : e.amount < m}) < k
        /\ k <= Cardinality({e \in S : e.amount <= m})

\* the amount_spike condition as the rules state it, for the event ev
SpikeCondition(ev) ==
    /\ Cardinality(SameUserBefore(ev)) >= SPIKE_MIN_PRIOR
    /\ LET sample == SpikeSampleOf(ev)
           m      == AmountOfRank(sample, (Cardinality(sample) \div 2) + 1)
       IN  m > 0 /\ ev.amount >= SPIKE_FACTOR * m

\* the rules whose condition holds for thread p's event and feature row
FiringRules(p) ==
    LET ev == EventOfRequest(p)
        fr == FeaturesOfRequest(p)
    IN  {r \in { Reason("new_device", 85), Reason("new_ip", 80), Reason("new_merchant", 65),
                 Reason("impossible_travel", 95), Reason("high_velocity_5m", 90),
                 Reason("high_spend_1h", 70), Reason("amount_spike", 75) } :
            \/ r.reason = "new_device" /\ fr.is_new_device = 1
            \/ r.reason = "new_ip" /\ fr.is_new_ip = 1
            \/ r.reason = "new_merchant" /\ fr.is_new_merchant = 1
            \/ r.reason = "impossible_travel" /\ fr.speed_kmph >= 900 * KM
            \/ r.reason = "high_velocity_5m" /\ fr.tx_count_5m >= 3
            \/ r.reason = "high_spend_1h" /\ fr.spend_1h >= 800
            \/ r.reason = "amount_spike" /\ SpikeCondition(ev)}

\* C13: build_reasons returns at most 3 reasons, in non-increasing severity order;
\* each is a firing reason and none is returned twice; no firing reason left out has
\* a severity greater than a returned one; when 3 or fewer rules fire all are returned.
C13_TopThreeBySeverity ==
    \A p \in Threads :
        ReasonsBuilt(p) =>
            LET rs     == ReturnedReasons(p)
                firing == FiringRules(p)
            IN  /\ Len(rs) <= 3
                /\ \A i \in 1 .. Len(rs) : rs[i] \in firing
                /\ \A i, j \in 1 .. Len(rs) :
                       i < j => rs[i].severity >= rs[j].severity /\ rs[i] # rs[j]
                /\ \A f \in firing :
                       (\A i \in 1 .. Len(rs) : rs[i] # f) =>
                           \A i \in 1 .. Len(rs) : f.severity <= rs[i].severity
                /\ Cardinality(firing) <= 3 => Len(rs) = Cardinality(firing)
                /\ Cardinality(firing) > 3 => Len(rs) = 3

\* more than three rules fire, the weakest of them new_merchant and high_spend_1h,
\* and the three returned are the ones of severity 95, 90 and 85
C13_Witness ==
    /\ ReasonsBuilt(1)
    /\ Cardinality(FiringRules(1)) >= 5
    /\ Reason("new_merchant", 65) \in FiringRules(1)
    /\ ReturnedReasons(1) = << Reason("impossible_travel", 95),
                               Reason("high_velocity_5m", 90), Reason("new_device", 85) >>

\* the six feature rules: name, severity, and whether the condition holds on fr
FeatureRules(fr) ==
    { <<"new_device", 85, fr.is_new_device = 1>>,
      <<"new_ip", 80, fr.is_new_ip = 1>>,
      <<"new_merchant", 65, fr.is_new_merchant = 1>>,
      <<"impossible_travel", 95, fr.speed_kmph >= 900 * KM>>,
      <<"high_velocity_5m", 90, fr.tx_count_5m >= 3>>,
      <<"high_spend_1h", 70, fr.spend_1h >= 800>> }

\* C19: each of the six feature rules yields its reason, with its fixed severity,
\* exactly when its condition holds on the stored feature row: a reason whose
\* condition does not hold is never returned, and one whose condition holds is
\* returned unless three reasons of a greater severity are; 900, 3 and 800 fire.
C19_FeatureRules ==
    \A p \in Threads :
        ReasonsBuilt(p) =>
            LET rs == ReturnedReasons(p)
            IN  \A rule \in FeatureRules(FeaturesOfRequest(p)) :
                    /\ \A i \in 1 .. Len(rs) :
                           rs[i].reason = rule[1] => rule[3] /\ rs[i].severity = rule[2]
                    /\ rule[3] =>
                           \/ Returned(p, rule[1])
                           \/ /\ Len(rs) = 3
                              /\ \A i \in 1 .. Len(rs) : rs[i].severity > rule[2]

\* a feature row at the three limits and with no novelty: the three limit rules fire
C19_Witness ==
    /\ ReasonsBuilt(1)
    /\ FeaturesOfRequest(1).speed_kmph = 900 * KM
    /\ FeaturesOfRequest(1).tx_count_5m = 3
    /\ FeaturesOfRequest(1).spend_1h = 800
    /\ ReturnedReasons(1) = << Reason("impossible_travel", 95),
                               Reason("high_velocity_5m", 90), Reason("high_spend_1h", 70) >>

\* the amount_spike reason is among the candidates of thread p's call exactly when
\* cond holds: it is returned only if cond, and if cond it is returned unless three
\* reasons of a greater severity are
SpikeFiresIff(p, cond) ==
    LET rs == ReturnedReasons(p)
    IN  /\ Returned(p, "amount_spike") => cond
        /\ cond => \/ Returned(p, "amount_spike")
                   \/ Len(rs) = 3 /\ \A i \in 1 .. Len(rs) : rs[i].severity > 75

\* C14: the amount_spike rule fires, with severity 75, if and only if the user has at
\* least 10 stored events strictly earlier than the event and, of the up-to-30 most
\* recent of them, the amount at index floor(n/2) in ascending order is > 0 and the
\* event's amount is >= 4 times it; with fewer than 10 earlier events it never fires.
C14_AmountSpike ==
    \A p \in Threads :
        ReasonsBuilt(p) =>
            LET ev == EventOfRequest(p)
                rs == ReturnedReasons(p)
            IN  /\ SpikeFiresIff(p, SpikeCondition(ev))
                /\ \A i \in 1 .. Len(rs) :
                       rs[i].reason = "amount_spike" => rs[i].severity = 75
                /\ Cardinality(SameUserBefore(ev)) < 10 => ~Returned(p, "amount_spike")

\* the rule fired for a user with more than 30 earlier events, whose 30 most recent
\* have another middle amount than all of them have
C14_Witness ==
    /\ ReasonsBuilt(1)
    /\ Returned(1, "amount_spike")
    /\ LET prior  == SameUserBefore(EventOfRequest(1))
           sample == SpikeSampleOf(EventOfRequest(1))
       IN  /\ Cardinality(prior) > 30
           /\ AmountOfRank(prior, (Cardinality(prior) \div 2) + 1)
                  # AmountOfRank(sample, (Cardinality(sample) \div 2) + 1)

\* thread p's call sampled an even number of earlier amounts, at least 10
EvenSample(p) ==
    LET n == Cardinality(SpikeSampleOf(EventOfRequest(p)))
    IN  ReasonsBuilt(p) /\ n >= 10 /\ n % 2 = 0

\* C15 as stated: on an even sample the median used is the lower of the two middle
\* elements, so the rule fires exactly when that element is > 0 and the amount is
\* >= 4 times it.
C15_LowerMiddleOnEven ==
    \A p \in Threads :
        EvenSample(p) =>
            LET ev     == EventOfRequest(p)
                sample == SpikeSampleOf(ev)
                lower  == AmountOfRank(sample, Cardinality(sample) \div 2)
            IN  SpikeFiresIff(p, lower > 0 /\ ev.amount >= 4 * lower)

\* C15 amended: on an even sample the median used is the upper of the two middle
\* elements of the ascending sample, one element and not the average of the two: the
\* rule fires exactly when that element is > 0 and the amount is >= 4 times it.
C15_UpperMiddleOnEven ==
    \A p \in Threads :
        EvenSample(p) =>
            LET ev     == EventOfRequest(p)
                sample == SpikeSampleOf(ev)
                upper  == AmountOfRank(sample, (Cardinality(sample) \div 2) + 1)
            IN  SpikeFiresIff(p, upper > 0 /\ ev.amount >= 4 * upper)

\* an even sample whose two middle amounts differ, an amount that is >= 4 times
\* their average and < 4 times the upper one, and the rule did not fire
C15_Witness ==
    /\ EvenSample(1)
    /\ LET ev     == EventOfRequest(1)
           sample == SpikeSampleOf(ev)
           lower  == AmountOfRank(sample, Cardinality(sample) \div 2)
           upper  == AmountOfRank(sample, (Cardinality(sample) \div 2) + 1)
       IN  /\ 0 < lower
           /\ lower < upper
           /\ 2 * ev.amount >= 4 * (lower + upper)
           /\ ev.amount < 4 * upper
    /\ ~Returned(1, "amount_spike")

\* an ingest or score request whose timestamp does not parse or whose amount is < 0
Malformed(r) ==
    /\ r.kind \in {"ingest", "score"}
    /\ r.timestamp = BadTimestamp \/ r.amount < 0

\* C16: a request whose timestamp cannot be parsed or whose amount is negative is
\* rejected: it ends with a client error, compute_features is never invoked for it,
\* and it stores no Event and no FeatureRow.
C16_MalformedRejected ==
    \A p \in Threads :
        Malformed(req[p]) =>
            /\ pc[p] \notin {"compute", "add_feature"}
            /\ ~loc[p].created
            /\ \A e \in events : e.amount >= 0
            /\ pc[p] = "done" => loc[p].status = "400 invalid timestamp format"

\* the stored event a feature row belongs to
EventOfFeature(f) == EventRow(events, f.event_id_fk)

\* the same user's latest event before e, where it is the only one with its timestamp
LastBefore(e) ==
    {x \in SameUserBefore(e) : \A y \in SameUserBefore(e) : y = x \/ y.timestamp < x.timestamp}

\* C17: for every point A, haversine_km(A, A) is 0: an event at the place of the same
\* user's last event has distance_from_last_km 0.
C17_SamePlaceZero ==
    \A f \in features :
        \A last \in LastBefore(EventOfFeature(f)) :
            (last.lat = EventOfFeature(f).lat /\ last.lon = EventOfFeature(f).lon)
                => f.distance_from_last_km = 0

\* two events in a row from Chicago, the second with distance 0
C17_Witness ==
    \E f \in features :
        \E last \in LastBefore(EventOfFeature(f)) :
            /\ last.lat = 41 /\ last.lon = -87
            /\ EventOfFeature(f).lat = 41 /\ EventOfFeature(f).lon = -87
            /\ f.distance_from_last_km = 0

\* C18: for all points A and B, haversine_km(A, B) = haversine_km(B, A): an event at B
\* after one at A and an event at A after one at B have the same distance_from_last_km.
C18_Symmetric ==
    \A f, g \in features :
        \A lf \in LastBefore(EventOfFeature(f)), lg \in LastBefore(EventOfFeature(g)) :
            ( /\ lf.lat = EventOfFeature(g).lat /\ lf.lon = EventOfFeature(g).lon
              /\ lg.lat = EventOfFeature(f).lat /\ lg.lon = EventOfFeature(f).lon )
                => f.distance_from_last_km = g.distance_from_last_km

\* Chicago, Los Angeles, Chicago: both legs stored, of one length over 1000 km
C18_Witness ==
    \E f, g \in features :
        \E lf \in LastBefore(EventOfFeature(f)), lg \in LastBefore(EventOfFeature(g)) :
            /\ lf.lat = 41 /\ EventOfFeature(f).lat = 34
            /\ lg.lat = 34 /\ EventOfFeature(g).lat = 41
            /\ f.distance_from_last_km = g.distance_from_last_km
            /\ f.distance_from_last_km > 1000 * KM

\* no call of load_artifacts and no call of reset_cache is under way
CacheAtRest ==
    /\ \A p \in Threads :
           pc[p] \notin { "la_exists", "la_read_model", "la_store_model", "la_read_scaler",
                          "la_store_scaler", "la_read_threshold", "la_store_threshold",
                          "la_store_columns" }
    /\ rpc \notin {"reset_scaler", "reset_threshold", "reset_columns"}

\* C20: after any sequence of load_artifacts calls, returning or raising, and of
\* reset_cache calls, the cache is entirely empty or entirely populated: "model" is
\* never left set while "threshold" or "feature_columns" is None.
C20_CacheAllOrNothing ==
    CacheAtRest =>
        \/ cached = NoCache
        \/ \A k \in DOMAIN cached : cached[k] # None

\* no request that stored the event e is still between its two commits
RequestEnded(e) ==
    \A p \in Threads :
        ~(loc[p].created /\ loc[p].ev = e.id /\ pc[p] \in {"compute", "add_feature"})

\* C21: after any sequence of ingest/score requests, failed ones included, every
\* stored Event whose request has ended has exactly one FeatureRow, and no request
\* bearing a stored identifier ends with "event exists but features missing".
C21_EveryEventHasFeatures ==
    /\ \A e \in events :
           RequestEnded(e) => Cardinality({f \in features : f.event_id_fk = e.id}) = 1
    /\ \A p \in Threads : loc[p].status # "500 event exists but features missing"

=============================================================================
